---- MODULE Spec2Model ----
(***************************************************************************)
(* Model of src/src/tools/solvers.py: SolverBase and                       *)
(* ParallelAdaptiveStepsizeSolver (construction, integrate, _add_evals,    *)
(* _remove_evals).                                                         *)
(*                                                                         *)
(* Time values are integers in units of 1/100, so that the 101-point       *)
(* default grid torch.linspace(t_init, t_final, 101) is exact whenever the *)
(* bounds are whole numbers (multiples of 100).  A tensor of shape (n, 1)  *)
(* or (n, d) is a sequence of length n; tensor indices are kept 0-based as *)
(* in the source and shifted by one when a sequence is accessed.           *)
(* Python's None and tensors are tagged records ([kind |-> "None"],        *)
(* [kind |-> "tensor", val |-> seq]).                                      *)
(***************************************************************************)
EXTENDS Integers, Sequences, FiniteSets, TLC

\* ---------------------------------------------------------------- bounds
\* longest explicit grid a caller passes to integrate
MaxExplicit == 2
\* longest `points` batch of a direct _add_evals / _remove_evals call
MaxBatch == 2

\* ------------------------------------------------------ program constants
\* torch.linspace(t_init, t_final, 101)
NumLinspace == 101

\* ------------------------------------------------------------ input sets
\* client threads; A is the one of the single-threaded specifications
Callers == {"A", "B"}
MainCaller == "A"
\* integrate's t_init / t_final arguments (0.0, 1.0, 2.0)
BoundValues == {0, 100, 200}
\* values of caller-supplied grid points (0.0, 0.5, 1.0)
GridValues == {0, 50, 100}
\* the Evaluator (ode_fxn): "zero" is t |-> 0, "ident" is t |-> t
Evaluators == {"zero", "ident"}
\* constructor arguments
Orders == {0, 1, 2}
Tols == {0, 1}
SolverBounds == {<<0, 100>>, <<100, 0>>}

None == [kind |-> "None"]
Tensor(s) == [kind |-> "tensor", val |-> s]

VARIABLES
    self,   \* the solver instance: its attributes, or not constructed
    call    \* per caller: the frame of the method call in progress

vars == <<self, call>>

\* ------------------------------------------------------------- helpers
Range(s) == {s[i] : i \in 1..Len(s)}

StrictlyIncreasing(s) == \A i \in 1..(Len(s) - 1) : s[i] < s[i + 1]

SeqsUpTo(S, n) == UNION {[1..k -> S] : k \in 0..n}

\* ordered, duplicate-free grids (the interface's "ordered sequence")
OrderedGrids(S, n) == {s \in SeqsUpTo(S, n) : StrictlyIncreasing(s)}

\* the Evaluator applied to one time value
Evaluate(f, tm) == IF f = "zero" THEN 0 ELSE tm

\* the Evaluator applied to a batch: one sample per input time, same order
ode_fxn(f, points) == [i \in 1..Len(points) |-> Evaluate(f, points[i])]

\* torch.linspace(a, b, n): a + i*(b-a)/(n-1) for i = 0..n-1
linspace(a, b, n) == [i \in 1..n |-> a + ((i - 1) * (b - a)) \div (n - 1)]

\* torch.arange(n)
arange(n) == [i \in 1..n |-> i - 1]

\* tensor[mask]
MaskSelect(s, mask) ==
    LET F[i \in 0..Len(s)] ==
            IF i = 0 THEN <<>>
            ELSE IF mask[i] THEN Append(F[i - 1], s[i]) ELSE F[i - 1]
    IN F[Len(s)]


\* tensor[idxs] = vals, for in-range, duplicate-free idxs with
\* Len(idxs) = Len(vals)
IndexPut(base, idxs, vals) ==
    [i \in 1..Len(base) |->
        IF \E k \in 1..Len(idxs) : idxs[k] + 1 = i
        THEN vals[CHOOSE k \in 1..Len(idxs) : idxs[k] + 1 = i]
        ELSE base[i]]

\* torch.zeros((n, d))
zeros(n) == [i \in 1..n |-> 0]

\* ascending enumeration of a finite set of integers
SortedSeq(S) ==
    LET F[T \in SUBSET S] ==
            IF T = {} THEN <<>>
            ELSE LET m == CHOOSE x \in T : \A z \in T : x >= z
                 IN Append(F[T \ {m}], m)
    IN F[S]

\* ------------------------------------------------------- the solver class
NoSolver == [state |-> "none"]

\* SolverBase.__init__: assert p > 0, then store the attributes
SolverBase_init(p, t_init, t_final) ==
    IF ~(p > 0)
    THEN [state |-> "AssertionError"]
    ELSE [state |-> "ok", p |-> p, t_init |-> t_init, t_final |-> t_final]

\* ParallelAdaptiveStepsizeSolver.__init__
Solver_init(p, atol, rtol, t_init, t_final) ==
    LET base == SolverBase_init(p, t_init, t_final)
    IN IF base.state # "ok"
       THEN base
       ELSE [state |-> "ok", p |-> base.p,
             t_init |-> base.t_init, t_final |-> base.t_final,
             atol |-> atol, rtol |-> rtol, previous_t |-> None]

\* SolverBase._calculate_integral (not overridden by the parallel solver)
_calculate_integral(t, y, degr) ==
    [raises |-> TRUE, exc |-> "NotImplementedError"]

\* integrate, lines 67-68: the sum of two boolean tensors is their
\* elementwise OR
WarmStartMask(previous_t, t_init, t_final) ==
    [i \in 1..Len(previous_t) |->
        (previous_t[i] <= t_final) \/ (previous_t[i] >= t_init)]

\* integrate, lines 60-69: the starting candidate set t_add
SeedGrid(t_arg, previous_t, t_init, t_final) ==
    IF t_arg.kind # "None"
    THEN t_arg.val
    ELSE IF previous_t.kind = "None"
         THEN linspace(t_init, t_final, NumLinspace)
         ELSE MaskSelect(previous_t.val,
                         WarmStartMask(previous_t.val, t_init, t_final))

\* _add_evals: the returned (combined_evals, combined_points) and the
\* batches handed to the Evaluator, in call order
_add_evals(f, old_evals, old_points, points, old_idxs, new_idxs) ==
    IF Len(points) = 0
    THEN [exc |-> "none", evals |-> old_evals, points |-> old_points,
          batches |-> <<>>]
    ELSE LET new_evals == ode_fxn(f, points)
             ce0 == zeros(Len(old_evals) + Len(new_evals))
             ce1 == IF Len(old_idxs) > 0
                    THEN IndexPut(ce0, old_idxs, old_evals) ELSE ce0
             combined_evals == IndexPut(ce1, new_idxs, new_evals)
             cp0 == zeros(Len(old_points) + Len(points))
             cp1 == IF Len(old_idxs) > 0
                    THEN IndexPut(cp0, old_idxs, old_points) ELSE cp0
             combined_points == IndexPut(cp1, new_idxs, points)
         IN [exc |-> "none", evals |-> combined_evals,
             points |-> combined_points, batches |-> <<points>>]

\* _remove_evals: `geos` and `eval_times` are assigned in the body
\* (lines 141-142), so they are locals; line 125 reads `geos` before any
\* assignment and the call ends there, whatever the arguments
_remove_evals(evals, points) ==
    [exc |-> "UnboundLocalError", evals |-> <<>>, points |-> <<>>]

\* ------------------------------------------------------------ call frames
\* The frame of a call: the method's arguments and locals under their
\* source names, plus history fields that the code does not have:
\*   iter       loop iterations entered so far
\*   candLog    the candidate set t_add at the start of each iteration
\*   evalLog    the batches handed to the Evaluator, in call order
\*   old_points the grid passed to _add_evals as old_points
\*   seed_prev  the value of self.previous_t read by the seed step
\*   self_at_call  the solver's attributes when integrate was entered
Idle ==
    [op |-> "none", pc |-> "idle", f |-> "zero",
     t_init |-> 0, t_final |-> 0, t_arg |-> None,
     t_add |-> <<>>, t |-> <<>>, y |-> <<>>, y_previous |-> <<>>,
     idxs_previous |-> <<>>, idxs_add |-> <<>>,
     old_points |-> <<>>,
     iter |-> 0, evalLog |-> <<>>, candLog |-> <<>>,
     seed_prev |-> None, self_at_call |-> NoSolver,
     outcome |-> "none", result |-> None]

\* ordered grids in which a value may repeat
Nondecreasing(s) == \A i \in 1..(Len(s) - 1) : s[i] <= s[i + 1]
SortedGrids(S, n) == {s \in SeqsUpTo(S, n) : Nondecreasing(s)}

\* the explicit-grid argument of integrate: None or an ordered sequence of
\* times; integrate takes it as given, repeated values included
GridArgs == {None} \cup {Tensor(g) : g \in SortedGrids(GridValues, MaxExplicit)}

\* the Evaluator and the <<t_init, t_final>> a caller passes to integrate;
\* the second thread calls with the default bounds (0.0, 1.0)
EvaluatorsOf(c) == IF c = MainCaller THEN Evaluators ELSE {"ident"}
BoundsOf(c) ==
    IF c = MainCaller THEN BoundValues \X BoundValues ELSE {<<0, 100>>}

Init ==
    /\ self = NoSolver
    /\ call = [c \in Callers |-> Idle]

\* ParallelAdaptiveStepsizeSolver(p, atol, rtol, t_init=..., t_final=...)
Construct ==
    /\ self.state # "ok"
    /\ \A c \in Callers : call[c].pc = "idle"
    /\ \E p \in Orders, atol \in Tols, rtol \in Tols, b \in SolverBounds :
           self' = Solver_init(p, atol, rtol, b[1], b[2])
    /\ UNCHANGED call

\* a caller enters integrate(ode_fxn, t_init=, t_final=, t=)
IntegrateCall(c) ==
    /\ self.state = "ok"
    /\ call[c].pc = "idle"
    /\ \E f \in EvaluatorsOf(c), b \in BoundsOf(c), g \in GridArgs :
           call' = [call EXCEPT ![c] =
                       [Idle EXCEPT !.op = "integrate", !.pc = "seed",
                                    !.f = f, !.t_init = b[1], !.t_final = b[2],
                                    !.t_arg = g,
                                    !.self_at_call = self]]
    /\ UNCHANGED self

\* integrate, lines 60-74
Seed(c) ==
    /\ call[c].pc = "seed"
    /\ LET fr == call[c]
           t_add == SeedGrid(fr.t_arg, self.previous_t, fr.t_init, fr.t_final)
       IN call' = [call EXCEPT ![c] =
                      [fr EXCEPT !.t_add = t_add, !.t = <<>>,
                                 !.y_previous = <<>>,
                                 !.idxs_previous = <<>>,
                                 !.idxs_add = arange(Len(t_add)),
                                 !.seed_prev = self.previous_t,
                                 !.pc = "while"]]
    /\ UNCHANGED self

\* integrate, line 75, loop entered
LoopEnter(c) ==
    /\ call[c].pc = "while"
    /\ Len(call[c].t_add) > 0
    /\ call' = [call EXCEPT ![c].pc = "add_evals",
                            ![c].iter = @ + 1,
                            ![c].candLog = Append(@, call[c].t_add)]
    /\ UNCHANGED self

\* integrate, line 75, loop not entered: the function body ends and the
\* call returns None
LoopExit(c) ==
    /\ call[c].pc = "while"
    /\ Len(call[c].t_add) = 0
    /\ call' = [call EXCEPT ![c].pc = "done",
                            ![c].outcome = "returned",
                            ![c].result = None]
    /\ UNCHANGED self

\* integrate, lines 79-81
Merge(c) ==
    /\ call[c].pc = "add_evals"
    /\ LET fr == call[c]
           r == _add_evals(fr.f, fr.y_previous, fr.t, fr.t_add,
                           fr.idxs_previous, fr.idxs_add)
       IN call' = [call EXCEPT ![c] =
                      [fr EXCEPT !.old_points = fr.t,
                                 !.y = r.evals, !.t = r.points,
                                 !.evalLog = @ \o r.batches,
                                 !.pc = "calculate"]]
    /\ UNCHANGED self

\* integrate that stores the merged grid in self.previous_t before line 86
Calculate_caches_first(c) ==
    /\ call[c].pc = "calculate"
    /\ LET fr == call[c]
           r == _calculate_integral(fr.t, fr.y, "P")
       IN call' = [call EXCEPT ![c].pc = "done",
                               ![c].outcome =
                                   IF r.raises THEN r.exc ELSE "NameError"]
    /\ self' = [self EXCEPT !.previous_t = Tensor(call[c].t)]

\* integrate, lines 86-95: _calculate_integral at degree P; were it to
\* return, line 95 evaluates the undefined name `adsfdsf`
Calculate(c) ==
    /\ call[c].pc = "calculate"
    /\ LET fr == call[c]
           r == _calculate_integral(fr.t, fr.y, "P")
       IN call' = [call EXCEPT ![c].pc = "done",
                               ![c].outcome =
                                   IF r.raises THEN r.exc ELSE "NameError"]
    /\ UNCHANGED self

\* the caller takes the outcome of its call; the frame is dropped
Finish(c) ==
    /\ call[c].pc = "done"
    /\ call' = [call EXCEPT ![c] = Idle]
    /\ UNCHANGED self


\* the enumerations of a finite set, in every order
InjSeqs(S) == {s \in [1..Cardinality(S) -> S] : Range(s) = S}

\* the (old_idxs, new_idxs) pairs whose index sets partition 0..n-1 with k
\* new places; each index tensor lists its set in any order
IndexPartitions(n, k) ==
    UNION {InjSeqs((0..(n - 1)) \ S) \X InjSeqs(S) :
              S \in {T \in SUBSET (0..(n - 1)) : Cardinality(T) = k}}

\* a direct call self._add_evals(ode_fxn, old_evals, old_points, points,
\* old_idxs, new_idxs); the retained samples are Evaluator output
AddEvalsCall(c) ==
    /\ self.state = "ok"
    /\ call[c].pc = "idle"
    /\ \E f \in Evaluators,
          old_points \in OrderedGrids(GridValues, MaxBatch),
          points \in OrderedGrids(GridValues, MaxBatch) :
         \E ix \in IndexPartitions(Len(old_points) + Len(points), Len(points)) :
           LET old_evals == ode_fxn(f, old_points)
               r == _add_evals(f, old_evals, old_points, points, ix[1], ix[2])
           IN call' = [call EXCEPT ![c] =
                          [Idle EXCEPT !.op = "_add_evals", !.pc = "done",
                                       !.f = f,
                                       !.y_previous = old_evals,
                                       !.old_points = old_points,
                                       !.t_add = points,
                                       !.idxs_previous = ix[1],
                                       !.idxs_add = ix[2],
                                       !.evalLog = r.batches,
                                       !.y = r.evals, !.t = r.points,
                                       !.outcome = IF r.exc = "none"
                                                   THEN "returned"
                                                   ELSE r.exc]]
    /\ UNCHANGED self

\* a direct call self._remove_evals(evals, points); the frame keeps the
\* arguments in y_previous / old_points and the returned pair in y / t
RemoveEvalsCall(c) ==
    /\ self.state = "ok"
    /\ call[c].pc = "idle"
    /\ \E f \in Evaluators, points \in OrderedGrids(GridValues, MaxBatch + 1) :
           LET evals == ode_fxn(f, points)
               r == _remove_evals(evals, points)
           IN call' = [call EXCEPT ![c] =
                          [Idle EXCEPT !.op = "_remove_evals", !.pc = "done",
                                       !.f = f,
                                       !.y_previous = evals,
                                       !.old_points = points,
                                       !.y = r.evals, !.t = r.points,
                                       !.outcome = IF r.exc = "none"
                                                   THEN "returned"
                                                   ELSE r.exc]]
    /\ UNCHANGED self

\* ------------------------------------------------------- specifications
IntegrateStep(c) ==
    \/ IntegrateCall(c)
    \/ Seed(c)
    \/ LoopEnter(c)
    \/ LoopExit(c)
    \/ Merge(c)
    \/ Calculate(c)
    \/ Finish(c)

\* one client thread: construction, then method calls in sequence
Next ==
    \/ Construct
    \/ IntegrateStep(MainCaller)
    \/ AddEvalsCall(MainCaller)
    \/ RemoveEvalsCall(MainCaller)

Spec == Init /\ [][Next]_vars

\* longest grid a client has stored in previous_t
MaxPrior == 3
PriorValues == {0, 50, 100, 200}
PriorGrids == OrderedGrids(PriorValues, MaxPrior)

\* previous_t is a public attribute that integrate reads and never
\* assigns: a warm-start grid exists exactly when client code has stored
\* one.  WarmInit is the solver as such a client left it, or no solver yet.
WarmInit ==
    /\ self \in {NoSolver} \cup
                {[Solver_init(1, 1, 1, 0, 100) EXCEPT !.previous_t = Tensor(g)] :
                    g \in PriorGrids}
    /\ call = [c \in Callers |-> Idle]

WarmSpec == WarmInit /\ [][Next]_vars

\* two client threads inside integrate on one constructed solver
ConcInit ==
    /\ self = Solver_init(1, 1, 1, 0, 100)
    /\ call = [c \in Callers |-> Idle]

ConcNext == \E c \in Callers : IntegrateStep(c)

ConcSpec == ConcInit /\ [][ConcNext]_vars


\* ================================================================ claims
\* the call of caller c is an integrate call that has merged at least once
Merged(c) ==
    /\ call[c].op = "integrate"
    /\ call[c].pc \in {"calculate", "done"}
    /\ call[c].iter > 0

\* the call of caller c is an integrate call that returned to its caller
Returned(c) ==
    /\ call[c].op = "integrate"
    /\ call[c].pc = "done"
    /\ call[c].outcome = "returned"

HasBounds(c, grid) ==
    /\ StrictlyIncreasing(grid)
    /\ call[c].t_init \in Range(grid)
    /\ call[c].t_final \in Range(grid)

\* C1: for valid bounds (t_init < t_final) and every seed, the grid held
\* by integrate after each merge, and the grid it returns, is strictly
\* increasing and contains t_init and t_final.
C1_GridIncreasingWithBounds ==
    \A c \in Callers :
        call[c].t_init < call[c].t_final =>
            /\ Merged(c) => HasBounds(c, call[c].t)
            /\ (Returned(c) /\ call[c].result.kind = "IntegralOutput")
                   => HasBounds(c, call[c].result.times)

\* C2: the grid and the sample set have the same length after every merge
\* step (inside integrate or as a direct _add_evals call) and after every
\* removal step: each step ends with a grid and a sample set of one length.
C2_GridAndSamplesSameLength ==
    \A c \in Callers :
        /\ Merged(c) => Len(call[c].t) = Len(call[c].y)
        /\ (call[c].op = "_add_evals" /\ call[c].pc = "done") =>
               /\ call[c].outcome = "returned"
               /\ Len(call[c].t) = Len(call[c].y)
        /\ (call[c].op = "_remove_evals" /\ call[c].pc = "done") =>
               /\ call[c].outcome = "returned"
               /\ Len(call[c].t) = Len(call[c].y)

\* the time values handed to the Evaluator by the call of caller c, one
\* entry per value and invocation
EvaluatedTimes(c) ==
    LET log == call[c].evalLog
        F[k \in 0..Len(log)] == IF k = 0 THEN <<>> ELSE F[k - 1] \o log[k]
    IN F[Len(log)]

\* C3: within one integrate call the Evaluator is invoked exactly once per
\* loop iteration, on exactly the candidate points of that iteration, and
\* no time value is handed to it twice.  Stated for calls with
\* t_init < t_final, so that a violation does not rest on an empty interval.
C3_EvaluatorOncePerCandidate ==
    \A c \in Callers :
        (call[c].op = "integrate" /\ call[c].t_init < call[c].t_final) =>
            LET log == call[c].evalLog
                done == IF call[c].pc = "add_evals"
                        THEN call[c].iter - 1 ELSE call[c].iter
                ev == EvaluatedTimes(c)
            IN /\ Len(log) = done
               /\ \A k \in 1..Len(log) : log[k] = call[c].candLog[k]
               /\ \A i, j \in 1..Len(ev) : i # j => ev[i] # ev[j]

\* C4: an integrate call ends either because an iteration scheduled no new
\* candidate points, or with a ConvergenceError when the iteration budget
\* is used up.
C4_EndsByConvergenceOrBudget ==
    \A c \in Callers :
        (call[c].op = "integrate" /\ call[c].pc = "done") =>
            \/ call[c].outcome = "returned" /\ Len(call[c].t_add) = 0
            \/ call[c].outcome = "ConvergenceError"

\* C5: the coarsening step, given a grid of at least 2 points, ends with a
\* grid that still has the first and the last point of its input and at
\* least 2 points.
C5_CoarseningKeepsBounds ==
    \A c \in Callers :
        (call[c].op = "_remove_evals" /\ call[c].pc = "done"
            /\ Len(call[c].old_points) >= 2) =>
            /\ call[c].outcome = "returned"
            /\ Len(call[c].t) >= 2
            /\ call[c].t[1] = call[c].old_points[1]
            /\ call[c].t[Len(call[c].t)]
                   = call[c].old_points[Len(call[c].old_points)]

\* C6: the merge step given a zero-length batch of candidate points does
\* not return normally.
C6_EmptyBatchFails ==
    \A c \in Callers :
        (call[c].op = "_add_evals" /\ call[c].pc = "done"
            /\ Len(call[c].t_add) = 0) =>
            call[c].outcome # "returned"

\* the prior-grid points t with t_init <= t <= t_final, in grid order
WithinBounds(grid, t_init, t_final) ==
    MaskSelect(grid, [i \in 1..Len(grid) |->
                        t_init <= grid[i] /\ grid[i] <= t_final])

\* C7: without an explicit grid and with a prior grid, the starting
\* candidate set is exactly the prior-grid points within [t_init, t_final].
C7_WarmSeedWithinBounds ==
    \A c \in Callers :
        (call[c].op = "integrate"
            /\ call[c].pc \in {"while", "add_evals", "calculate", "done"}
            /\ call[c].t_arg = None
            /\ call[c].seed_prev.kind = "tensor") =>
            call[c].t_add = WithinBounds(call[c].seed_prev.val,
                                         call[c].t_init, call[c].t_final)

\* C8: when an integrate call completes, previous_t is the final grid of
\* that call.
C8_FinalGridCached ==
    \A c \in Callers :
        Returned(c) => self.previous_t = Tensor(call[c].t)

\* C9: an integrate call whose loop has ended returns an IntegralOutput
\* whose times are the final grid and whose geometries are the final
\* samples.
C9_ReturnsIntegralOutput ==
    \A c \in Callers :
        Returned(c) =>
            /\ call[c].result.kind = "IntegralOutput"
            /\ call[c].result.times = call[c].t
            /\ call[c].result.geometries = call[c].y

\* the call of caller c has read previous_t (seed step) and not yet ended
PastSeed(c) == call[c].pc \in {"while", "add_evals", "calculate"}

\* C10: concurrent integrate calls on one solver are rejected or
\* serialized: no call reads previous_t (its seed step) while another call
\* is between its seed step and its end.
C10_IntegrateSerialized ==
    [][\A c, d \in Callers :
          (c # d /\ PastSeed(d)) => ~Seed(c)]_vars

\* the direct _remove_evals call of caller c has ended
Coarsened(c) ==
    /\ call[c].op = "_remove_evals"
    /\ call[c].pc = "done"

\* all samples handed to the call of caller c are equal: every adjacent
\* sample distance is 0, below every positive threshold
ConstantSamples(c) ==
    \A i, j \in 1..Len(call[c].y_previous) :
        call[c].y_previous[i] = call[c].y_previous[j]

\* C11: when every adjacent sample distance is below the threshold, the
\* coarsening step ends normally, not in an error, with exactly the
\* 2-point grid (t_init, t_final).
C11_DegenerateGridIsTwoPoints ==
    \A c \in Callers :
        (Coarsened(c) /\ ConstantSamples(c) /\ Len(call[c].old_points) >= 3) =>
            /\ call[c].outcome = "returned"
            /\ call[c].t = <<call[c].old_points[1],
                             call[c].old_points[Len(call[c].old_points)]>>

\* C12: construction with an invalid configuration (p <= 0, a non-positive
\* atol or rtol, or t_final <= t_init) yields no solver instance: every
\* constructed solver has a valid configuration.
C12_InvalidConfigurationRejected ==
    self.state = "ok" =>
        /\ self.p > 0
        /\ self.atol > 0
        /\ self.rtol > 0
        /\ self.t_init < self.t_final

\* in the frame of caller c every retained (time, sample) pair sits at its
\* old index and every new (time, Evaluator sample) pair at its new index,
\* and the combined arrays have one place per pair
PairsPlaced(c) ==
    LET fr == call[c]
        N == Len(fr.old_points) + Len(fr.t_add)
    IN /\ Len(fr.t) = N
       /\ Len(fr.y) = N
       /\ \A k \in 1..Len(fr.idxs_previous) :
              /\ fr.t[fr.idxs_previous[k] + 1] = fr.old_points[k]
              /\ fr.y[fr.idxs_previous[k] + 1] = fr.y_previous[k]
       /\ \A k \in 1..Len(fr.idxs_add) :
              /\ fr.t[fr.idxs_add[k] + 1] = fr.t_add[k]
              /\ fr.y[fr.idxs_add[k] + 1] = Evaluate(fr.f, fr.t_add[k])

\* C13: the merge step, given retained pairs with indices old_idxs and new
\* points with indices new_idxs that together partition 0..N-1, returns
\* combined arrays with every retained pair at its old index and every new
\* (time, Evaluator sample) pair at its new index.
C13_MergePlacesPairsAtIndices ==
    \A c \in Callers :
        /\ (call[c].op = "_add_evals" /\ call[c].pc = "done") =>
               PairsPlaced(c)
        /\ Merged(c) => PairsPlaced(c)

\* some adjacent pair of the samples has distance 0, below every positive
\* threshold
HasCollapsiblePair(samples) ==
    \E i \in 1..(Len(samples) - 1) : samples[i] = samples[i + 1]

\* C14: the coarsening loop collapses until no further collapse is
\* possible: given a grid with a sub-threshold adjacent pair it ends
\* normally, has removed at least one interior point, and leaves a grid in
\* which no adjacent pair is below the threshold or only the two boundary
\* points remain.
C14_CollapsesUntilNoPairBelowThreshold ==
    \A c \in Callers :
        (Coarsened(c) /\ Len(call[c].old_points) >= 3
            /\ HasCollapsiblePair(call[c].y_previous)) =>
            /\ call[c].outcome = "returned"
            /\ Len(call[c].t) < Len(call[c].old_points)
            /\ Range(call[c].t) \subseteq Range(call[c].old_points)
            /\ Len(call[c].t) = 2 \/ ~HasCollapsiblePair(call[c].y)

\* the integrate call of caller c has ended with an error
Failed(c) ==
    /\ call[c].op = "integrate"
    /\ call[c].pc = "done"
    /\ call[c].outcome \notin {"none", "returned"}

\* C15: an integrate call that ends with an error leaves the solver as it
\* was when the call was entered (previous_t, p, atol, rtol, t_init and
\* t_final), so the next call is seeded as if the failed call had not
\* happened.
C15_FailedCallLeavesSolverUnchanged ==
    \A c \in Callers :
        Failed(c) =>
            /\ self = call[c].self_at_call
            /\ \A b \in BoundValues \X BoundValues, g \in GridArgs :
                  SeedGrid(g, self.previous_t, b[1], b[2])
                      = SeedGrid(g, call[c].self_at_call.previous_t, b[1], b[2])

\* an integrate call seeded from a stored prior grid has merged it and
\* ended with the error of the quadrature step
C15_Witness ==
    \E c \in Callers :
        /\ Failed(c)
        /\ call[c].outcome = "NotImplementedError"
        /\ call[c].seed_prev.kind = "tensor"
        /\ call[c].t_arg = None
        /\ Len(call[c].t) > 0

====
